---- MODULE Spec2Model ----
(***************************************************************************)
(* Model of the query-routing orchestrator                                 *)
(* (src/orchestrator/orchestrator_agent.py, src/main.py).                  *)
(*                                                                         *)
(* Python strings are sequences of tokens; a token stands for a piece of   *)
(* text that the code never looks inside ("AGENT_NAME:", a newline, a      *)
(* blank, an agent id, ...).  Python values that may be None, a string or  *)
(* some other JSON value are records [t, s]: t is the type tag and s the   *)
(* text of a string.                                                       *)
(***************************************************************************)
EXTENDS Integers, Sequences, FiniteSets, TLC

VARIABLES
    agent_registry,  \* module global: id -> [name, endpoint]
    pc,              \* per request: position in process_query / run_orchestrator
    query_input,     \* per request: the query the caller passed (query_input.query)
    state,           \* per request: the AgentState carried through the graph
    oracle,          \* per request: outcome of model.generate_content
    worker,          \* per request: outcome of client.post
    posts,           \* per request: the HTTP POSTs issued, in order
    trace,           \* per request: the graph nodes entered, in order
    result,          \* per request: value returned by run_orchestrator
    answer           \* per request: what /query sends back to the caller

vars == <<agent_registry, pc, query_input, state, oracle, worker, posts, trace, result, answer>>

----------------------------------------------------------------------------
(* Bounds *)

MaxReplyLen == 5

----------------------------------------------------------------------------
(* Values *)

None == [t |-> "none", s |-> <<>>]

Str(s) == [t |-> "str", s |-> s]

JsonList == [t |-> "list", s |-> <<>>]

IsStr(v) == v.t = "str"

\* Python truthiness of an Optional[str]
Truthy(v) == v.t # "none" /\ v.s # <<>>

----------------------------------------------------------------------------
(* Text tokens *)

AGENT_NAME == "AGENT_NAME:"

NL == "\n"

SP == " "

Requests == {1}

Queries == {<<>>, <<"Please fix the grammar in this paragraph">>}

ReplyTokens == {AGENT_NAME, NL, SP, "researcher", "content_writer", "REASON: unsure"}

RECURSIVE SeqsUpTo(_, _)
SeqsUpTo(S, n) ==
    IF n = 0 THEN {<<>>}
    ELSE LET shorter == SeqsUpTo(S, n - 1)
         IN  shorter \cup {Append(s, x) : s \in {u \in shorter : Len(u) = n - 1}, x \in S}

Replies == SeqsUpTo(ReplyTokens, MaxReplyLen)

----------------------------------------------------------------------------
(* The registry *)

Registry ==
    (<<"researcher">> :> [name |-> "Research Agent",
                          endpoint |-> "http://localhost:8001/query"])
    @@ (<<"content_writer">> :> [name |-> "Content Writing Agent",
                                 endpoint |-> "http://localhost:8002/query"])

----------------------------------------------------------------------------
(* str.split("\n"), str.startswith, str.strip *)

RECURSIVE SplitLines(_)
SplitLines(s) ==
    IF \A i \in 1..Len(s) : s[i] # NL THEN <<s>>
    ELSE LET k == CHOOSE i \in 1..Len(s) : s[i] = NL /\ \A j \in 1..(i - 1) : s[j] # NL
         IN  <<SubSeq(s, 1, k - 1)>> \o SplitLines(SubSeq(s, k + 1, Len(s)))

StartsWithAgentName(line) == Len(line) >= 1 /\ line[1] = AGENT_NAME

\* line.split(":", 1)[1] of a line that starts with "AGENT_NAME:": the first
\* colon of the line is the one that ends the prefix
AfterFirstColon(line) == Tail(line)

RECURSIVE LStrip(_)
LStrip(s) == IF s # <<>> /\ Head(s) = SP THEN LStrip(Tail(s)) ELSE s

RECURSIVE RStrip(_)
RStrip(s) == IF s # <<>> /\ s[Len(s)] = SP THEN RStrip(SubSeq(s, 1, Len(s) - 1)) ELSE s

Strip(s) == RStrip(LStrip(s))

----------------------------------------------------------------------------
(* The classifier oracle: model.generate_content either raises or returns a
   reply text *)

OracleRaised == [ok |-> FALSE, text |-> <<>>]

OracleOutcomes == {OracleRaised} \cup {[ok |-> TRUE, text |-> t] : t \in Replies}

NoOracle == [ok |-> FALSE, text |-> <<"(not called)">>]

----------------------------------------------------------------------------
(* The worker: client.post either raises (transport failure) or returns a
   status code and a body *)

BodyResultX == "{\"result\": \"X\", \"confidence\": 0.9}"

BodyResultEmpty == "{\"result\": \"\", \"confidence\": 0.1}"

BodyResultNull == "{\"result\": null}"

BodyResultList == "{\"result\": [\"X\"]}"

BodyNoResult == "{\"detail\": \"Not Found\"}"

BodyJsonArray == "[1, 2]"

BodyNotJson == "Internal Server Error"

Bodies == {BodyResultX, BodyResultEmpty, BodyResultNull, BodyResultList,
           BodyNoResult, BodyJsonArray, BodyNotJson}

StatusCodes == {200, 500}

TransportErrors == {<<"timed out">>, <<"All connection attempts failed">>,
                    <<"[Errno -2] Name or service not known">>}

WorkerOutcomes ==
    {[kind |-> "http", status |-> c, body |-> b, err |-> <<>>] : c \in StatusCodes, b \in Bodies}
    \cup {[kind |-> "raise", status |-> 0, body |-> "", err |-> e] : e \in TransportErrors}

NoWorker == [kind |-> "none", status |-> 0, body |-> "", err |-> <<>>]

\* response.text
Text(body) == <<body>>

\* response.json(): ok is FALSE when the body is not JSON (json() raises);
\* dict says whether the value is a JSON object; has whether it has the key
\* "result"; result is the value under that key
ParseJson(body) ==
    CASE body = BodyResultX     -> [ok |-> TRUE, dict |-> TRUE, has |-> TRUE, result |-> Str(<<"X">>)]
      [] body = BodyResultEmpty -> [ok |-> TRUE, dict |-> TRUE, has |-> TRUE, result |-> Str(<<>>)]
      [] body = BodyResultNull  -> [ok |-> TRUE, dict |-> TRUE, has |-> TRUE, result |-> None]
      [] body = BodyResultList  -> [ok |-> TRUE, dict |-> TRUE, has |-> TRUE, result |-> JsonList]
      [] body = BodyNoResult    -> [ok |-> TRUE, dict |-> TRUE, has |-> FALSE, result |-> None]
      [] body = BodyJsonArray   -> [ok |-> TRUE, dict |-> FALSE, has |-> FALSE, result |-> None]
      [] OTHER                  -> [ok |-> FALSE, dict |-> FALSE, has |-> FALSE, result |-> None]

JSONDecodeError == <<"Expecting value: line 1 column 1 (char 0)">>

AttributeError == <<"'list' object has no attribute 'get'">>

----------------------------------------------------------------------------
(* The messages of the code *)

ClarificationMessage ==
    <<"I couldn't determine which agent would be best suited for your query. Could you please provide more specific information?">>

NoValidAgentMessage == <<"No valid agent was selected for this query.">>

NoQueryMessage == <<"No query provided.">>

FallbackMessage == <<"No response generated by the orchestrator.">>

\* mutant: the raw body is left out of the message
ErrorFrom_NoBody(name, text) == <<"Error from ", name>>

ErrorFrom(name, text) == <<"Error from ", name, ": ">> \o text

\* mutant: the exception's description is left out of the message
FailedToCommunicate_NoDescription(name, description) ==
    <<"Failed to communicate with ", name>>

FailedToCommunicate(name, description) ==
    <<"Failed to communicate with ", name, ": ">> \o description

----------------------------------------------------------------------------
(* The AgentState and the two graph nodes *)

HumanMessage(content) == [human |-> TRUE, content |-> content]

IsHuman(msg) == msg.human

HumanMessages(st) == SelectSeq(st.messages, IsHuman)

Last(s) == s[Len(s)]

\* mutant: an empty query starts the graph with no message
initial_state_SkipsEmpty(query) ==
    [messages |-> IF query = <<>> THEN <<>> ELSE <<HumanMessage(query)>>,
     current_agent |-> None,
     next_action |-> "ROUTE",
     response |-> None]

\* run_orchestrator: the state the graph starts from
initial_state(query) ==
    [messages |-> <<HumanMessage(query)>>,
     current_agent |-> None,
     next_action |-> "ROUTE",
     response |-> None]

\* what stands in state[r] while request r has no AgentState
NoState ==
    [messages |-> <<>>, current_agent |-> None, next_action |-> "", response |-> None]

\* mutant: the loop has no break, so the last matching line wins
selected_agent_last(response_text) ==
    LET lines == SplitLines(response_text)
        hits == {i \in 1..Len(lines) : StartsWithAgentName(lines[i])}
    IN  IF hits = {} THEN None
        ELSE LET last == CHOOSE i \in hits : \A j \in hits : i >= j
             IN  Str(Strip(AfterFirstColon(lines[last])))

\* mutant: the value after the colon is taken as it is, blanks included
selected_agent_NoStrip(response_text) ==
    LET lines == SplitLines(response_text)
        hits == {i \in 1..Len(lines) : StartsWithAgentName(lines[i])}
    IN  IF hits = {} THEN None
        ELSE LET first == CHOOSE i \in hits : \A j \in hits : i <= j
             IN  Str(AfterFirstColon(lines[first]))

\* route_query: the first line that starts with "AGENT_NAME:" gives the
\* selected agent; None when there is no such line
selected_agent(response_text) ==
    LET lines == SplitLines(response_text)
        hits == {i \in 1..Len(lines) : StartsWithAgentName(lines[i])}
    IN  IF hits = {} THEN None
        ELSE LET first == CHOOSE i \in hits : \A j \in hits : i <= j
             IN  Str(Strip(AfterFirstColon(lines[first])))

\* key in agent_registry
InRegistry(v, reg) == IsStr(v) /\ v.s \in DOMAIN reg

\* mutant: the id is not looked up in the registry
RouteResult_NoValidation(st, response_text, reg) ==
    LET sel == selected_agent(response_text)
    IN  IF ~Truthy(sel)
        THEN [st EXCEPT !.next_action = "END", !.response = Str(ClarificationMessage)]
        ELSE [st EXCEPT !.current_agent = sel, !.next_action = "process"]

\* mutant: current_agent is stored before the id is validated
RouteResult_SetsAgentFirst(st, response_text, reg) ==
    LET sel == selected_agent(response_text)
    IN  IF ~Truthy(sel) \/ ~InRegistry(sel, reg)
        THEN [st EXCEPT !.current_agent = sel, !.next_action = "END",
                        !.response = Str(ClarificationMessage)]
        ELSE [st EXCEPT !.current_agent = sel, !.next_action = "process"]

\* mutant: the classifier's reply is appended to the messages as a human
\* message
RouteResult_AppendsMessage(st, response_text, reg) ==
    LET sel == selected_agent(response_text)
        messages == Append(st.messages, HumanMessage(response_text))
    IN  IF ~Truthy(sel) \/ ~InRegistry(sel, reg)
        THEN [st EXCEPT !.messages = messages, !.next_action = "END",
                        !.response = Str(ClarificationMessage)]
        ELSE [st EXCEPT !.messages = messages, !.current_agent = sel,
                        !.next_action = "process"]

\* route_query after the classifier returned response_text
RouteResult(st, response_text, reg) ==
    LET sel == selected_agent(response_text)
    IN  IF ~Truthy(sel) \/ ~InRegistry(sel, reg)
        THEN [st EXCEPT !.next_action = "END", !.response = Str(ClarificationMessage)]
        ELSE [st EXCEPT !.current_agent = sel, !.next_action = "process"]

\* mutant: the classifier's exception is caught and answered with the
\* clarification message
RouteOutcome_Catches(st, out, reg) ==
    IF out.ok
    THEN [pc |-> "edge", state |-> RouteResult(st, out.text, reg)]
    ELSE [pc |-> "edge",
          state |-> [st EXCEPT !.next_action = "END", !.response = Str(ClarificationMessage)]]

\* route_query from the classifier call on: an exception of the call leaves
\* the function (and the graph, and run_orchestrator) with no state returned
RouteOutcome(st, out, reg) ==
    IF out.ok
    THEN [pc |-> "edge", state |-> RouteResult(st, out.text, reg)]
    ELSE [pc |-> "raised", state |-> st]

\* mutant: the field is read under another key, so the default is returned
GetResult_WrongKey(json) == Str(<<>>)

\* mutant: the field is read with no default, so a missing key gives None
GetResult_NoDefault(json) == IF json.has THEN json.result ELSE None

\* result.get('result', '')
GetResult(json) == IF json.has THEN json.result ELSE Str(<<>>)

\* mutant: response.json() is called before the try, and a body that does
\* not parse is reported like a non-200 reply
DispatchResult_MalformedAsAgentError(st, out, details) ==
    IF out.kind = "raise"
    THEN [st EXCEPT !.next_action = "END",
                    !.response = Str(FailedToCommunicate(details.name, out.err))]
    ELSE IF out.status = 200 /\ ParseJson(out.body).ok
    THEN LET json == ParseJson(out.body)
         IN  IF ~json.dict
             THEN [st EXCEPT !.next_action = "END",
                             !.response = Str(FailedToCommunicate(details.name, AttributeError))]
             ELSE [st EXCEPT !.next_action = "END", !.response = GetResult(json)]
    ELSE [st EXCEPT !.next_action = "END",
                    !.response = Str(ErrorFrom(details.name, Text(out.body)))]

\* process_with_agent after client.post ended with outcome out
DispatchResult(st, out, details) ==
    IF out.kind = "raise"
    THEN [st EXCEPT !.next_action = "END",
                    !.response = Str(FailedToCommunicate(details.name, out.err))]
    ELSE IF out.status = 200
    THEN LET json == ParseJson(out.body)
         IN  IF ~json.ok
             THEN [st EXCEPT !.next_action = "END",
                             !.response = Str(FailedToCommunicate(details.name, JSONDecodeError))]
             ELSE IF ~json.dict
             THEN [st EXCEPT !.next_action = "END",
                             !.response = Str(FailedToCommunicate(details.name, AttributeError))]
             ELSE [st EXCEPT !.next_action = "END", !.response = GetResult(json)]
    ELSE [st EXCEPT !.next_action = "END",
                    !.response = Str(ErrorFrom(details.name, Text(out.body)))]

\* mutant: the state is returned with no response
InvalidAgentResult_NoResponse(st) == [st EXCEPT !.next_action = "END"]

\* process_with_agent when current_agent is unset or no registry key
InvalidAgentResult(st) ==
    [st EXCEPT !.next_action = "END", !.response = Str(NoValidAgentMessage)]

\* mutant: the loop stores each description line in the entry it reads
RegistryAfterDescriptions_Writes(reg) ==
    [id \in DOMAIN reg |-> [reg[id] EXCEPT !.name = "- " \o @]]

\* route_query's loop over agent_registry.items(), which builds
\* agent_descriptions: it reads the entries and stores nothing in them
RegistryAfterDescriptions(reg) == reg

\* mutant: an unroutable query goes back to "route", to ask the classifier
\* again
EdgeAfterRoute_Retry(st) == IF st.next_action = "process" THEN "process" ELSE "route"

\* mutant: an unconditional edge from "route" to "process"
EdgeAfterRoute_Always(st) == "process"

\* the conditional edge after "route"
EdgeAfterRoute(st) == IF st.next_action = "process" THEN "process" ELSE "end"

\* mutant: the response is returned as it is, None included
ReturnValue_NoFallback(final_state) == final_state.response

\* run_orchestrator's return value
ReturnValue(final_state) ==
    IF final_state.response # None THEN final_state.response ELSE Str(FallbackMessage)

----------------------------------------------------------------------------
(* The /query endpoint *)

OracleError == <<"503 The model is overloaded">>

ValidationError == <<"1 validation error for QueryResponse">>

NoAnswer == [status |-> 0, body |-> None]

\* QueryResponse(response=...) accepts a string only
QueryResponse(response) ==
    IF IsStr(response)
    THEN [status |-> 200, body |-> response]
    ELSE [status |-> 500, body |-> Str(<<"Error processing query: ">> \o ValidationError)]

HTTPException(description) ==
    [status |-> 500, body |-> Str(<<"Error processing query: ">> \o description)]

----------------------------------------------------------------------------
(* Actions *)

Init ==
    /\ agent_registry = Registry
    /\ pc = [r \in Requests |-> "idle"]
    /\ query_input = [r \in Requests |-> <<>>]
    /\ state = [r \in Requests |-> NoState]
    /\ oracle = [r \in Requests |-> NoOracle]
    /\ worker = [r \in Requests |-> NoWorker]
    /\ posts = [r \in Requests |-> <<>>]
    /\ trace = [r \in Requests |-> <<>>]
    /\ result = [r \in Requests |-> None]
    /\ answer = [r \in Requests |-> NoAnswer]

\* POST /query arrives: process_query calls run_orchestrator, which builds
\* the initial state and starts the graph at its entry point
\* mutant: the initial state is one module-level record, which every call
\* in progress shares and each new call overwrites
process_query_on_SharedState(r, queries) ==
    /\ pc[r] \in {"idle", "done"}
    /\ \E q \in queries :
           /\ query_input' = [query_input EXCEPT ![r] = q]
           /\ state' = [o \in DOMAIN state |-> initial_state(q)]
    /\ pc' = [pc EXCEPT ![r] = "route"]
    /\ oracle' = [oracle EXCEPT ![r] = NoOracle]
    /\ worker' = [worker EXCEPT ![r] = NoWorker]
    /\ posts' = [posts EXCEPT ![r] = <<>>]
    /\ trace' = [trace EXCEPT ![r] = <<>>]
    /\ result' = [result EXCEPT ![r] = None]
    /\ answer' = [answer EXCEPT ![r] = NoAnswer]
    /\ UNCHANGED agent_registry

process_query_on(r, queries) ==
    /\ pc[r] \in {"idle", "done"}
    /\ \E q \in queries :
           /\ query_input' = [query_input EXCEPT ![r] = q]
           /\ state' = [state EXCEPT ![r] = initial_state(q)]
    /\ pc' = [pc EXCEPT ![r] = "route"]
    /\ oracle' = [oracle EXCEPT ![r] = NoOracle]
    /\ worker' = [worker EXCEPT ![r] = NoWorker]
    /\ posts' = [posts EXCEPT ![r] = <<>>]
    /\ trace' = [trace EXCEPT ![r] = <<>>]
    /\ result' = [result EXCEPT ![r] = None]
    /\ answer' = [answer EXCEPT ![r] = NoAnswer]
    /\ UNCHANGED agent_registry

process_query(r) == process_query_on(r, Queries)

\* graph node "route"
route_query_on(r, outcomes) ==
    /\ pc[r] = "route"
    /\ IF HumanMessages(state[r]) = <<>>
       THEN /\ state' = [state EXCEPT ![r] = [@ EXCEPT !.next_action = "END",
                                                      !.response = Str(NoQueryMessage)]]
            /\ trace' = [trace EXCEPT ![r] = Append(@, "route_query")]
            /\ pc' = [pc EXCEPT ![r] = "edge"]
            /\ UNCHANGED oracle
       ELSE \E out \in outcomes :
            /\ oracle' = [oracle EXCEPT ![r] = out]
            /\ trace' = [trace EXCEPT ![r] = @ \o <<"route_query", "generate_content">>]
            /\ state' = [state EXCEPT ![r] = RouteOutcome(@, out, agent_registry).state]
            /\ pc' = [pc EXCEPT ![r] = RouteOutcome(state[r], out, agent_registry).pc]
    /\ agent_registry' = RegistryAfterDescriptions(agent_registry)
    /\ UNCHANGED <<query_input, worker, posts, result, answer>>

route_query(r) == route_query_on(r, OracleOutcomes)

\* the conditional edge after "route": to "process" or to END
route_edge(r) ==
    /\ pc[r] = "edge"
    /\ pc' = [pc EXCEPT ![r] = EdgeAfterRoute(state[r])]
    /\ UNCHANGED <<agent_registry, query_input, state, oracle, worker, posts, trace, result, answer>>

\* graph node "process", followed by its edge to END
process_with_agent_on(r, outcomes) ==
    /\ pc[r] = "process"
    /\ pc' = [pc EXCEPT ![r] = "end"]
    /\ LET st == state[r]
           agent_id == st.current_agent
       IN  IF ~Truthy(agent_id) \/ ~InRegistry(agent_id, agent_registry)
           THEN /\ state' = [state EXCEPT ![r] = InvalidAgentResult(@)]
                /\ trace' = [trace EXCEPT ![r] = Append(@, "process_with_agent")]
                /\ UNCHANGED <<worker, posts>>
           ELSE IF HumanMessages(st) = <<>>
           THEN /\ state' = [state EXCEPT ![r] = [@ EXCEPT !.next_action = "END",
                                                          !.response = Str(NoQueryMessage)]]
                /\ trace' = [trace EXCEPT ![r] = Append(@, "process_with_agent")]
                /\ UNCHANGED <<worker, posts>>
           ELSE \E out \in outcomes :
                LET agent_details == agent_registry[agent_id.s]
                    content == Last(HumanMessages(st)).content
                IN  /\ posts' = [posts EXCEPT ![r] =
                                    Append(@, [endpoint |-> agent_details.endpoint,
                                               json |-> [query |-> content]])]
                    /\ worker' = [worker EXCEPT ![r] = out]
                    /\ trace' = [trace EXCEPT ![r] = @ \o <<"process_with_agent", "post">>]
                    /\ state' = [state EXCEPT ![r] = DispatchResult(st, out, agent_details)]
    /\ UNCHANGED <<agent_registry, query_input, oracle, result, answer>>

process_with_agent(r) == process_with_agent_on(r, WorkerOutcomes)

\* the graph reached END: run_orchestrator returns
run_orchestrator_return(r) ==
    /\ pc[r] = "end"
    /\ result' = [result EXCEPT ![r] = ReturnValue(state[r])]
    /\ pc' = [pc EXCEPT ![r] = "returned"]
    /\ UNCHANGED <<agent_registry, query_input, state, oracle, worker, posts, trace, answer>>

\* process_query answers the caller: the QueryResponse, or HTTP 500 when
\* run_orchestrator or the QueryResponse constructor raised
process_query_return(r) ==
    /\ pc[r] \in {"returned", "raised"}
    /\ answer' = [answer EXCEPT ![r] =
                     IF pc[r] = "raised" THEN HTTPException(OracleError)
                     ELSE QueryResponse(result[r])]
    /\ pc' = [pc EXCEPT ![r] = "done"]
    /\ UNCHANGED <<agent_registry, query_input, state, oracle, worker, posts, trace, result>>

Next ==
    \E r \in Requests :
        \/ process_query(r)
        \/ route_query(r)
        \/ route_edge(r)
        \/ process_with_agent(r)
        \/ run_orchestrator_return(r)
        \/ process_query_return(r)

Spec == Init /\ [][Next]_vars

----------------------------------------------------------------------------
(* Two queries in progress at once: /query is an async endpoint, so the
   steps of two calls interleave at every await.  The inputs are a few
   classifier replies and worker outcomes of each kind. *)

ConcRequests == {1, 2}

ConcOracleOutcomes ==
    {OracleRaised,
     [ok |-> TRUE, text |-> <<AGENT_NAME, SP, "researcher">>],
     [ok |-> TRUE, text |-> <<AGENT_NAME, "content_writer", SP>>],
     [ok |-> TRUE, text |-> <<"REASON: unsure">>]}

ConcWorkerOutcomes ==
    {[kind |-> "http", status |-> 200, body |-> BodyResultX, err |-> <<>>],
     [kind |-> "http", status |-> 200, body |-> BodyResultNull, err |-> <<>>],
     [kind |-> "http", status |-> 500, body |-> BodyNotJson, err |-> <<>>],
     [kind |-> "raise", status |-> 0, body |-> "", err |-> <<"timed out">>]}

InitConc ==
    /\ agent_registry = Registry
    /\ pc = [r \in ConcRequests |-> "idle"]
    /\ query_input = [r \in ConcRequests |-> <<>>]
    /\ state = [r \in ConcRequests |-> NoState]
    /\ oracle = [r \in ConcRequests |-> NoOracle]
    /\ worker = [r \in ConcRequests |-> NoWorker]
    /\ posts = [r \in ConcRequests |-> <<>>]
    /\ trace = [r \in ConcRequests |-> <<>>]
    /\ result = [r \in ConcRequests |-> None]
    /\ answer = [r \in ConcRequests |-> NoAnswer]

NextConc ==
    \E r \in ConcRequests :
        \/ process_query_on(r, Queries)
        \/ route_query_on(r, ConcOracleOutcomes)
        \/ route_edge(r)
        \/ process_with_agent_on(r, ConcWorkerOutcomes)
        \/ run_orchestrator_return(r)
        \/ process_query_return(r)

SpecConc == InitConc /\ [][NextConc]_vars

----------------------------------------------------------------------------
(* process_with_agent called on its own, with any AgentState *)

AIMessage(content) == [human |-> FALSE, content |-> content]

DispatcherMessages ==
    {<<>>, <<AIMessage(<<"Hello">>)>>}
    \cup {<<HumanMessage(q)>> : q \in Queries}
    \cup {<<HumanMessage(q), AIMessage(<<"Hello">>)>> : q \in Queries}

DispatcherAgents ==
    {None, Str(<<>>), Str(<<"data_analyst">>), Str(<<SP, "researcher">>),
     Str(<<"researcher">>), Str(<<"content_writer">>)}

DispatcherInputs ==
    [messages : DispatcherMessages,
     current_agent : DispatcherAgents,
     next_action : {"ROUTE", "process", "END"},
     response : {None, Str(<<"an earlier response">>)}]

InitDispatcher ==
    /\ agent_registry = Registry
    /\ pc = [r \in Requests |-> "process"]
    /\ query_input = [r \in Requests |-> <<>>]
    /\ state \in [Requests -> DispatcherInputs]
    /\ oracle = [r \in Requests |-> NoOracle]
    /\ worker = [r \in Requests |-> NoWorker]
    /\ posts = [r \in Requests |-> <<>>]
    /\ trace = [r \in Requests |-> <<>>]
    /\ result = [r \in Requests |-> None]
    /\ answer = [r \in Requests |-> NoAnswer]

NextDispatcher == \E r \in Requests : process_with_agent(r)

SpecDispatcher == InitDispatcher /\ [][NextDispatcher]_vars

----------------------------------------------------------------------------
(* Vocabulary of the properties *)

\* the classifier was called for request r and returned a reply
Replied(r) == oracle[r].ok

\* the classifier was called for request r and raised
OracleFailed(r) == oracle[r] = OracleRaised

\* the graph of request r reached END
GraphEnded(r) == pc[r] \in {"end", "returned", "done"}

\* run_orchestrator returned for request r
Returned(r) == pc[r] = "returned" \/ (pc[r] = "done" /\ ~OracleFailed(r))

Occurrences(seq, x) == Cardinality({i \in 1..Len(seq) : seq[i] = x})

Contains(seq, x) == \E i \in 1..Len(seq) : seq[i] = x

\* the ids named by the lines of a reply that start with "AGENT_NAME:",
\* in the order of the lines
StartsWithPrefix(line) == line # <<>> /\ Head(line) = AGENT_NAME

NamedIds(text) ==
    LET named == SelectSeq(SplitLines(text), StartsWithPrefix)
    IN  [i \in 1..Len(named) |-> Strip(Tail(named[i]))]

IsKey(id) == id \in DOMAIN Registry

\* the Dispatcher ran exactly once for request r and posted to id's endpoint
DispatchedOnceTo(r, id) ==
    /\ Occurrences(trace[r], "process_with_agent") = 1
    /\ Len(posts[r]) = 1
    /\ posts[r][1].endpoint = Registry[id].endpoint

\* the Dispatcher never ran for request r and nothing was posted
NeverDispatched(r) ==
    /\ ~Contains(trace[r], "process_with_agent")
    /\ posts[r] = <<>>

----------------------------------------------------------------------------
(* C1 *)

\* C1 (as claimed): run_orchestrator returns a non-null string whatever the
\* worker answered, and it raises only when the classifier call failed.
\* Violated: a worker answering 200 with {"result": ["X"]} makes it return
\* a list.
C1_ReturnsString ==
    \A r \in Requests :
        /\ Returned(r) => IsStr(result[r])
        /\ pc[r] = "raised" => OracleFailed(r) /\ worker[r] = NoWorker

----------------------------------------------------------------------------
(* C2 *)

\* C2 (as claimed): when some line of the classifier reply is
\* "AGENT_NAME: <id>" with <id> a registry key, the Dispatcher runs exactly
\* once and posts to the endpoint registered for that id.  Violated: only
\* the first "AGENT_NAME:" line counts.
C2_AnyLineDispatches ==
    \A r \in Requests :
        Replied(r) /\ GraphEnded(r) =>
            \A i \in DOMAIN NamedIds(oracle[r].text) :
                LET id == NamedIds(oracle[r].text)[i]
                IN  IsKey(id) => DispatchedOnceTo(r, id)

\* C2 (amended): when the first line of the classifier reply that starts
\* with "AGENT_NAME:" names, after trimming, a registry key, the Dispatcher
\* runs exactly once for the query and its POST goes to the endpoint
\* registered for that id.
C2_FirstLineDispatches ==
    \A r \in Requests :
        Replied(r) /\ GraphEnded(r) =>
            LET ids == NamedIds(oracle[r].text)
            IN  ids # <<>> /\ IsKey(ids[1]) => DispatchedOnceTo(r, ids[1])

\* C2 witness: a reply with two "AGENT_NAME:" lines, the first naming a
\* registry key and the second not, was dispatched to the first one's endpoint
C2_Witness ==
    \E r \in Requests :
        /\ pc[r] = "done" /\ Replied(r)
        /\ LET ids == NamedIds(oracle[r].text)
           IN  Len(ids) = 2 /\ IsKey(ids[1]) /\ ~IsKey(ids[2])
               /\ DispatchedOnceTo(r, ids[1])

----------------------------------------------------------------------------
(* C3 *)

\* the reply names no agent, or the agent it names (the first "AGENT_NAME:"
\* line's) is not a registry key
Unroutable(text) == NamedIds(text) = <<>> \/ ~IsKey(NamedIds(text)[1])

\* C3: when the classifier reply has no "AGENT_NAME:" line, or the id it
\* names is not a registry key, the Dispatcher is never invoked, nothing is
\* posted, and the final response is the fixed clarification message.
C3_UnroutableClarifies ==
    \A r \in Requests :
        Replied(r) /\ Unroutable(oracle[r].text) =>
            /\ NeverDispatched(r)
            /\ pc[r] # "process"
            /\ GraphEnded(r) => state[r].response = Str(ClarificationMessage)
            /\ Returned(r) => result[r] = Str(ClarificationMessage)
            /\ pc[r] = "done" => answer[r] = [status |-> 200, body |-> Str(ClarificationMessage)]

\* C3 witness: a reply naming an id that is not a registry key was answered
\* with the clarification message
C3_Witness ==
    \E r \in Requests :
        /\ pc[r] = "done" /\ Replied(r)
        /\ NamedIds(oracle[r].text) # <<>>
        /\ NamedIds(oracle[r].text)[1] = <<"REASON: unsure">>
        /\ result[r] = Str(ClarificationMessage)

\* C3 second case: a reply with no "AGENT_NAME:" line at all
C3_WitnessNoLine ==
    \E r \in Requests :
        /\ pc[r] = "done" /\ Replied(r)
        /\ NamedIds(oracle[r].text) = <<>>
        /\ Contains(oracle[r].text, "researcher")
        /\ result[r] = Str(ClarificationMessage)

----------------------------------------------------------------------------
(* C4 *)

\* the worker of request r answered: the Dispatcher's POST came back
Answered(r) == worker[r].kind = "http"

\* the display name of the agent request r was routed to
TargetName(r) == Registry[state[r].current_agent.s].name

\* the worker answered 200 with a JSON object whose "result" is a text
SuccessWithText(r) ==
    /\ Answered(r) /\ worker[r].status = 200
    /\ LET json == ParseJson(worker[r].body)
       IN  json.ok /\ json.dict /\ json.has /\ IsStr(json.result)

\* C4: when the worker answers HTTP 200 with a JSON body whose "result"
\* field is the text X, the Dispatcher returns a state with response X and
\* next_action END, run_orchestrator returns X and the caller receives X.
C4_SuccessRelaysResult ==
    \A r \in Requests :
        SuccessWithText(r) =>
            LET X == ParseJson(worker[r].body).result
            IN  /\ pc[r] \in {"end", "returned", "done"}
                /\ state[r].response = X
                /\ state[r].next_action = "END"
                /\ pc[r] \in {"returned", "done"} => result[r] = X
                /\ pc[r] = "done" => answer[r] = [status |-> 200, body |-> X]

\* C4 witness: the body {"result": "X", "confidence": 0.9} was relayed
C4_Witness ==
    \E r \in Requests :
        /\ pc[r] = "done"
        /\ worker[r] = [kind |-> "http", status |-> 200, body |-> BodyResultX, err |-> <<>>]
        /\ answer[r] = [status |-> 200, body |-> Str(<<"X">>)]

----------------------------------------------------------------------------
(* C5 *)

\* C5: when the worker answers with a status other than 200, nothing is
\* raised: the Dispatcher returns a state with next_action END whose
\* response is a text naming the target agent and including the raw body,
\* and the caller gets that text.
C5_Non200IsAgentError ==
    \A r \in Requests :
        Answered(r) /\ worker[r].status # 200 =>
            /\ pc[r] \in {"end", "returned", "done"}
            /\ state[r].next_action = "END"
            /\ IsStr(state[r].response)
            /\ Head(state[r].response.s) = "Error from "
            /\ Contains(state[r].response.s, TargetName(r))
            /\ Contains(state[r].response.s, worker[r].body)
            /\ pc[r] = "done" => answer[r] = [status |-> 200, body |-> state[r].response]

\* C5 witness: an HTTP 500 from the Research Agent reached the caller as
\* "Error from Research Agent: Internal Server Error"
C5_Witness ==
    \E r \in Requests :
        /\ pc[r] = "done"
        /\ Answered(r) /\ worker[r].status = 500 /\ worker[r].body = BodyNotJson
        /\ answer[r].body =
               Str(<<"Error from ", "Research Agent", ": ", "Internal Server Error">>)

----------------------------------------------------------------------------
(* C6 *)

\* the POST of request r failed at the transport level
TransportFailed(r) == worker[r].kind = "raise"

\* C6: when the POST fails at the transport level, nothing is raised: the
\* Dispatcher returns a state with next_action END whose response is a text
\* naming the target agent and including the exception's description; the
\* caller gets that text as a successful answer and a next query is served.
C6_TransportErrorIsAnswered ==
    \A r \in Requests :
        TransportFailed(r) =>
            /\ pc[r] \in {"end", "returned", "done"}
            /\ state[r].next_action = "END"
            /\ IsStr(state[r].response)
            /\ Head(state[r].response.s) = "Failed to communicate with "
            /\ Contains(state[r].response.s, TargetName(r))
            /\ \A i \in 1..Len(worker[r].err) : Contains(state[r].response.s, worker[r].err[i])
            /\ pc[r] = "done" =>
                   /\ answer[r] = [status |-> 200, body |-> state[r].response]
                   /\ ENABLED process_query(r)

\* C6 witness: a timeout of the Content Writing Agent reached the caller as
\* a text
C6_Witness ==
    \E r \in Requests :
        /\ pc[r] = "done"
        /\ TransportFailed(r) /\ worker[r].err = <<"timed out">>
        /\ answer[r] = [status |-> 200,
                        body |-> Str(<<"Failed to communicate with ",
                                       "Content Writing Agent", ": ", "timed out">>)]

----------------------------------------------------------------------------
(* C7 *)

\* the worker answered 200 with a body that is not JSON
MalformedReply(r) ==
    Answered(r) /\ worker[r].status = 200 /\ ~ParseJson(worker[r].body).ok

\* C7 (as claimed): a 200 reply whose body cannot be parsed gets the
\* response of a non-200 reply ("Error from <agent>: <body>").  Violated:
\* response.json() raises inside the try, and the except clause answers.
C7_MalformedIsAgentError ==
    \A r \in Requests :
        MalformedReply(r) /\ GraphEnded(r) =>
            state[r].response = Str(<<"Error from ", TargetName(r), ": ", worker[r].body>>)

\* C7 (amended): a 200 reply whose body cannot be parsed is treated as the
\* TRANSPORT_ERROR outcome: next_action END and the response "Failed to
\* communicate with <agent>: <description of the parse error>", not the
\* response form of a non-200 reply.
C7_MalformedIsTransportError ==
    \A r \in Requests :
        MalformedReply(r) =>
            /\ pc[r] \in {"end", "returned", "done"}
            /\ state[r].next_action = "END"
            /\ IsStr(state[r].response)
            /\ Head(state[r].response.s) = "Failed to communicate with "
            /\ Contains(state[r].response.s, TargetName(r))
            /\ ~Contains(state[r].response.s, worker[r].body)

\* C7 witness: a 200 reply with the body "Internal Server Error" was answered
\* with the parse error's description
C7_Witness ==
    \E r \in Requests :
        /\ pc[r] = "done"
        /\ MalformedReply(r)
        /\ result[r] = Str(<<"Failed to communicate with ", TargetName(r), ": ">>
                           \o JSONDecodeError)

----------------------------------------------------------------------------
(* C8 *)

IsNode(x) == x \in {"route_query", "process_with_agent"}

\* the graph nodes request r has entered, in order
NodesEntered(r) == SelectSeq(trace[r], IsNode)

\* where request r stands once the graph has started
InGraph(r) == pc[r] \in {"edge", "process", "end", "raised", "returned", "done"}

\* the nodes entered are always a run of ROUTE -> END or ROUTE -> PROCESS ->
\* END: the Router first and once, the Dispatcher at most once, after it,
\* only when the Router has set current_agent and chosen "process", and
\* the state the Dispatcher returns has next_action END
C8_Path(r) ==
    /\ NodesEntered(r) \in {<<>>, <<"route_query">>, <<"route_query", "process_with_agent">>}
    /\ pc[r] \in {"idle", "route"} => NodesEntered(r) = <<>>
    /\ InGraph(r) => NodesEntered(r) # <<>>
    /\ pc[r] = "edge" => Len(NodesEntered(r)) = 1
    /\ pc[r] = "process" =>
           /\ Len(NodesEntered(r)) = 1
           /\ state[r].next_action = "process"
           /\ state[r].current_agent # None
    /\ Len(NodesEntered(r)) = 2 =>
           /\ pc[r] \in {"end", "returned", "done"}
           /\ state[r].next_action = "END"
           /\ state[r].current_agent # None

\* a step of request r enters a node only along ROUTE -> PROCESS, and never
\* goes back: once "process_with_agent" is entered no node is entered
\* again for the query
C8_Step(r) ==
    /\ NodesEntered(r)' # NodesEntered(r) /\ NodesEntered(r) # <<>> =>
           /\ NodesEntered(r) = <<"route_query">>
           /\ state[r].next_action = "process"
           /\ NodesEntered(r)' = <<"route_query", "process_with_agent">>
           /\ state'[r].next_action = "END"
    /\ pc[r] = "edge" /\ state[r].next_action # "process" => pc'[r] = "end"

\* C8: for every query the workflow follows only ROUTE -> PROCESS -> END or
\* ROUTE -> END: the Router runs exactly once and first, the Dispatcher at
\* most once and only after the Router chose "process", the Dispatcher
\* always leads to END, and no step is revisited.
C8_OnlyRouteProcessEnd ==
    /\ [](\A r \in Requests : C8_Path(r))
    /\ [][\A r \in Requests : ~process_query(r) => C8_Step(r)]_vars

\* C8 witness: both paths were taken to the end, here the long one
C8_Witness ==
    \E r \in Requests :
        /\ pc[r] = "done"
        /\ NodesEntered(r) = <<"route_query", "process_with_agent">>
        /\ state[r].next_action = "END"

\* C8 second path: ROUTE -> END, without the Dispatcher
C8_WitnessShort ==
    \E r \in Requests :
        /\ pc[r] = "done"
        /\ NodesEntered(r) = <<"route_query">>
        /\ state[r].next_action = "END"

----------------------------------------------------------------------------
(* C9 *)

\* C9 (as claimed): whatever the router decided and whatever the worker
\* answered, the caller of /query gets status 200 with a string response;
\* an error status is sent only when the classifier call failed.  Violated:
\* a worker answering 200 with {"result": ["X"]} ends in HTTP 500.
C9_OnlyOracleFailureIsAnError ==
    \A r \in Requests :
        pc[r] = "done" =>
            IF OracleFailed(r)
            THEN answer[r].status = 500
            ELSE answer[r].status = 200 /\ IsStr(answer[r].body)

----------------------------------------------------------------------------
(* C10 *)

\* C10: when the classifier call raises, the Router returns no state: the
\* AgentState stays the initial one (no response, no agent, no next
\* action), the Dispatcher is not invoked, nothing is posted,
\* run_orchestrator returns nothing and the caller gets HTTP 500.
C10_OracleFailurePropagates ==
    \A r \in Requests :
        OracleFailed(r) =>
            /\ pc[r] \in {"raised", "done"}
            /\ state[r] = initial_state(Last(state[r].messages).content)
            /\ NeverDispatched(r)
            /\ worker[r] = NoWorker
            /\ result[r] = None
            /\ pc[r] = "done" =>
                   /\ answer[r].status = 500
                   /\ answer[r].body = Str(<<"Error processing query: ">> \o OracleError)

\* C10 witness: a query whose classifier call raised was answered with 500
C10_Witness ==
    \E r \in Requests :
        /\ pc[r] = "done"
        /\ OracleFailed(r)
        /\ trace[r] = <<"route_query", "generate_content">>
        /\ answer[r].status = 500

----------------------------------------------------------------------------
(* C11 *)

\* C11: in every reachable workflow state current_agent is unset or a key
\* of the registry, and whenever the Dispatcher has issued its HTTP call
\* current_agent is the registry key whose endpoint was posted to.
C11_CurrentAgentIsKey ==
    \A r \in Requests :
        /\ state[r].current_agent = None \/ InRegistry(state[r].current_agent, agent_registry)
        /\ pc[r] = "process" => InRegistry(state[r].current_agent, agent_registry)
        /\ posts[r] # <<>> =>
               /\ InRegistry(state[r].current_agent, agent_registry)
               /\ \A i \in 1..Len(posts[r]) :
                      posts[r][i].endpoint = agent_registry[state[r].current_agent.s].endpoint

\* C11 witness: the Dispatcher posted to the endpoint of content_writer
\* while other replies named ids that are no keys
C11_Witness ==
    \E r \in Requests :
        /\ state[r].current_agent = Str(<<"content_writer">>)
        /\ Len(posts[r]) = 1
        /\ posts[r][1].endpoint = "http://localhost:8002/query"

\* C11 second case: a reply naming an unknown id left current_agent unset
C11_WitnessUnset ==
    \E r \in Requests :
        /\ Replied(r) /\ GraphEnded(r)
        /\ NamedIds(oracle[r].text) # <<>>
        /\ NamedIds(oracle[r].text)[1] = <<"REASON: unsure">>
        /\ state[r].current_agent = None

----------------------------------------------------------------------------
(* C12 *)

\* C12 (as claimed): in every workflow state next_action is one of ROUTE,
\* PROCESS, END, and on validation success the Router returns a state with
\* current_agent set to the id and next_action PROCESS.  Violated: the
\* Router writes "process", which is none of the three.
C12_NextActionInEnum ==
    \A r \in Requests :
        /\ pc[r] # "idle" => state[r].next_action \in {"ROUTE", "PROCESS", "END"}
        /\ pc[r] = "process" =>
               /\ state[r].current_agent = selected_agent(oracle[r].text)
               /\ state[r].next_action = "PROCESS"

----------------------------------------------------------------------------
(* C13 *)

\* everything that belongs to request r
Own(r) ==
    <<pc[r], query_input[r], state[r], oracle[r], worker[r], posts[r], trace[r],
      result[r], answer[r]>>

\* the final AgentState of a query q run alone, given what the classifier
\* and the worker answer
AloneFinalState(q, orc, wrk) ==
    LET routed == RouteResult(initial_state(q), orc.text, Registry)
    IN  IF routed.next_action = "process"
        THEN DispatchResult(routed, wrk, Registry[routed.current_agent.s])
        ELSE routed

\* what /query answers to a query q run alone
AloneAnswer(q, orc, wrk) ==
    IF ~orc.ok THEN HTTPException(OracleError)
    ELSE QueryResponse(ReturnValue(AloneFinalState(q, orc, wrk)))

\* a step of request r leaves everything of the other requests as it was
C13_Frame(r) ==
    pc'[r] # pc[r] => \A o \in ConcRequests \ {r} : Own(o)' = Own(o)

\* request r ends as it would alone
C13_AsAlone(r) ==
    /\ pc[r] \notin {"idle"} => state[r].messages = <<HumanMessage(query_input[r])>>
    /\ GraphEnded(r) /\ ~OracleFailed(r) =>
           state[r] = AloneFinalState(query_input[r], oracle[r], worker[r])
    /\ pc[r] = "done" => answer[r] = AloneAnswer(query_input[r], oracle[r], worker[r])

\* C13: when two queries run concurrently, in any interleaving of their
\* steps, each has its own WorkflowState: no step of one changes the
\* query, current_agent, next_action or response (or anything else) of the
\* other, and each ends with the state and the answer it would have alone.
C13_QueriesAreIndependent ==
    /\ [](\A r \in ConcRequests : C13_AsAlone(r))
    /\ [][\A r \in ConcRequests : C13_Frame(r)]_vars

\* C13 witness: two queries in progress together, routed to different
\* agents, both answered, each with its own answer
C13_Witness ==
    /\ pc[1] = "done" /\ pc[2] = "done"
    /\ query_input[1] # query_input[2]
    /\ state[1].current_agent = Str(<<"researcher">>)
    /\ state[2].current_agent = Str(<<"content_writer">>)
    /\ answer[1].body = Str(<<"X">>)
    /\ answer[2].body = Str(<<"Failed to communicate with ", "Content Writing Agent",
                              ": ", "timed out">>)

\* C13 interleaving: one query is between its Router and its Dispatcher
\* while the other is waiting for the classifier
C13_WitnessInterleaved ==
    /\ pc[1] = "process" /\ pc[2] = "route"
    /\ query_input[1] # query_input[2]

----------------------------------------------------------------------------
(* C14 *)

\* C14: for every query and every outcome the classifier is called at most
\* once and the worker's POST is issued at most once; once the graph has
\* ended (an unroutable reply, a non-200 reply, a transport failure or a
\* success) no further classifier call or POST follows for the query.
C14_SingleAttempt ==
    /\ [](\A r \in Requests :
             /\ Occurrences(trace[r], "generate_content") <= 1
             /\ Occurrences(trace[r], "post") <= 1
             /\ Len(posts[r]) = Occurrences(trace[r], "post")
             /\ Replied(r) \/ OracleFailed(r) <=> Contains(trace[r], "generate_content")
             /\ worker[r] # NoWorker <=> Contains(trace[r], "post"))
    /\ [][\A r \in Requests :
             (GraphEnded(r) \/ pc[r] = "raised") /\ ~process_query(r) =>
                 trace'[r] = trace[r] /\ posts'[r] = posts[r]]_vars

\* C14 witness: a non-200 reply was answered after one classifier call and
\* one POST
C14_Witness ==
    \E r \in Requests :
        /\ pc[r] = "done"
        /\ Answered(r) /\ worker[r].status = 500
        /\ trace[r] = <<"route_query", "generate_content", "process_with_agent", "post">>
        /\ Len(posts[r]) = 1

\* C14 other outcomes: an unroutable reply, and a transport failure
C14_WitnessUnroutable ==
    \E r \in Requests :
        /\ pc[r] = "done" /\ Replied(r) /\ Unroutable(oracle[r].text)
        /\ trace[r] = <<"route_query", "generate_content">>

C14_WitnessTransport ==
    \E r \in Requests :
        /\ pc[r] = "done" /\ TransportFailed(r)
        /\ trace[r] = <<"route_query", "generate_content", "process_with_agent", "post">>

----------------------------------------------------------------------------
(* C15 *)

\* current_agent is unset (None or the empty string) or no registry key
NoValidAgent(st) ==
    \/ st.current_agent = None
    \/ st.current_agent.s = <<>>
    \/ st.current_agent.s \notin DOMAIN Registry

\* C15: if the Dispatcher is entered with current_agent unset or not a
\* registry key, it issues no HTTP call and returns the state it was given
\* with next_action END and the response "No valid agent was selected for
\* this query.", every other field unchanged.
C15_DispatcherRevalidates ==
    /\ [][\A r \in Requests :
             pc[r] = "process" /\ pc'[r] = "end" /\ NoValidAgent(state[r]) =>
                 /\ state'[r] = [messages |-> state[r].messages,
                                 current_agent |-> state[r].current_agent,
                                 next_action |-> "END",
                                 response |-> Str(NoValidAgentMessage)]
                 /\ posts'[r] = posts[r]
                 /\ worker'[r] = worker[r]
                 /\ ~Contains(trace'[r], "post")]_vars
    /\ [](\A r \in Requests :
             pc[r] = "end" /\ NoValidAgent(state[r]) =>
                 /\ posts[r] = <<>>
                 /\ worker[r] = NoWorker
                 /\ state[r].next_action = "END"
                 /\ state[r].response = Str(NoValidAgentMessage))

\* C15 witness: the Dispatcher was entered with the id data_analyst, which
\* no registry entry has, and an earlier query in the state
C15_Witness ==
    \E r \in Requests :
        /\ pc[r] = "end"
        /\ state[r].current_agent = Str(<<"data_analyst">>)
        /\ state[r].messages # <<>>
        /\ state[r].response = Str(NoValidAgentMessage)
        /\ posts[r] = <<>>

\* C15 other case: current_agent unset
C15_WitnessUnset ==
    \E r \in Requests :
        /\ pc[r] = "end"
        /\ state[r].current_agent = None
        /\ state[r].response = Str(NoValidAgentMessage)
        /\ posts[r] = <<>>

----------------------------------------------------------------------------
(* C16 *)

Blank(s) == \A i \in 1..Len(s) : s[i] = SP

\* t is s without its leading and trailing blanks
TrimOf(t, s) ==
    /\ t = <<>> \/ (Head(t) # SP /\ t[Len(t)] # SP)
    /\ \E i \in 0..Len(s) :
           /\ i + Len(t) <= Len(s)
           /\ Blank(SubSeq(s, 1, i))
           /\ SubSeq(s, i + 1, i + Len(t)) = t
           /\ Blank(SubSeq(s, i + Len(t) + 1, Len(s)))

\* the lines of a reply that start with "AGENT_NAME:", what follows the
\* prefix on each
ValuesNamed(text) ==
    LET named == SelectSeq(SplitLines(text), StartsWithPrefix)
    IN  [i \in 1..Len(named) |-> Tail(named[i])]

\* the Router has run for request r and returned a state
Routed(r) == Replied(r) /\ pc[r] \in {"edge", "process", "end", "returned", "done"}

\* C16: the Router's selected id is the whitespace-trimmed value of the
\* first reply line that begins with "AGENT_NAME:"; later "AGENT_NAME:"
\* lines never matter: when the first names an unknown id the query ends
\* with the clarification message, whatever a second one names.
C16_FirstLineTrimmed ==
    \A r \in Requests :
        Routed(r) =>
            LET values == ValuesNamed(oracle[r].text)
                agent == state[r].current_agent
            IN  IF values = <<>> \/ ~\E id \in DOMAIN Registry : TrimOf(id, values[1])
                THEN /\ agent = None
                     /\ pc[r] # "process"
                     /\ NeverDispatched(r)
                     /\ GraphEnded(r) => state[r].response = Str(ClarificationMessage)
                     /\ Returned(r) => result[r] = Str(ClarificationMessage)
                ELSE /\ IsStr(agent)
                     /\ TrimOf(agent.s, values[1])
                     /\ agent.s \in DOMAIN Registry
                     /\ GraphEnded(r) => Len(posts[r]) = 1

\* C16 witness: the first "AGENT_NAME:" line names an unknown id, the
\* second a registry key, and the query ended with the clarification message
C16_Witness ==
    \E r \in Requests :
        /\ pc[r] = "done"
        /\ oracle[r] = [ok |-> TRUE,
                        text |-> <<AGENT_NAME, "REASON: unsure", NL, AGENT_NAME, "researcher">>]
        /\ result[r] = Str(ClarificationMessage)
        /\ posts[r] = <<>>

\* C16 trimming: blanks on both sides of the id were removed
C16_WitnessTrimmed ==
    \E r \in Requests :
        /\ pc[r] = "done"
        /\ oracle[r] = [ok |-> TRUE, text |-> <<AGENT_NAME, SP, "content_writer", SP>>]
        /\ state[r].current_agent = Str(<<"content_writer">>)
        /\ Len(posts[r]) = 1

----------------------------------------------------------------------------
(* C17 *)

\* C17: the Workflow Controller returns the final state's response when it
\* is set and the fixed fallback string when it is unset, so its return
\* value is never null.
C17_ResponseOrFallback ==
    \A r \in Requests :
        Returned(r) =>
            /\ state[r].response # None => result[r] = state[r].response
            /\ state[r].response = None => result[r] = Str(FallbackMessage)
            /\ result[r] # None

\* C17 witness: the final state had no response and the fallback string was
\* returned and sent
C17_Witness ==
    \E r \in Requests :
        /\ pc[r] = "done"
        /\ state[r].response = None
        /\ result[r] = Str(FallbackMessage)
        /\ answer[r] = [status |-> 200, body |-> Str(FallbackMessage)]

\* C17 other case: the final state's response was returned
C17_WitnessSet ==
    \E r \in Requests :
        /\ pc[r] = "done"
        /\ state[r].response = Str(<<"X">>)
        /\ result[r] = Str(<<"X">>)

----------------------------------------------------------------------------
(* C18 *)

\* C18: neither the Router nor the Dispatcher changes the query carried in
\* the state, and the body of every POST sent to a worker is {query: q}
\* with q the query the caller passed.
C18_QueryIsKept ==
    \A r \in Requests :
        pc[r] # "idle" =>
            /\ state[r].messages = <<HumanMessage(query_input[r])>>
            /\ \A i \in 1..Len(posts[r]) : posts[r][i].json = [query |-> query_input[r]]

\* C18 witness: the caller's query was posted to the worker as it came
C18_Witness ==
    \E r \in Requests :
        /\ pc[r] = "done"
        /\ query_input[r] = <<"Please fix the grammar in this paragraph">>
        /\ Len(posts[r]) = 1
        /\ posts[r][1].json.query = <<"Please fix the grammar in this paragraph">>

\* C18 with the empty query
C18_WitnessEmpty ==
    \E r \in Requests :
        /\ pc[r] = "done"
        /\ query_input[r] = <<>>
        /\ Len(posts[r]) = 1
        /\ posts[r][1].json.query = <<>>

----------------------------------------------------------------------------
(* C19 *)

\* C19: after the registry is loaded at start-up no Router, Dispatcher or
\* Controller step adds, removes or changes an entry: the registry is the
\* same in every reachable state, with two queries in progress at once.
C19_RegistryIsConstant ==
    /\ [](agent_registry = Registry)
    /\ [][agent_registry' = agent_registry]_vars

\* C19 witness: two queries were routed and dispatched at once, and the
\* registry is the one loaded at start-up
C19_Witness ==
    /\ pc[1] = "done" /\ pc[2] = "end"
    /\ Len(posts[1]) = 1 /\ Len(posts[2]) = 1
    /\ DOMAIN agent_registry = {<<"researcher">>, <<"content_writer">>}
    /\ agent_registry[<<"researcher">>].name = "Research Agent"

----------------------------------------------------------------------------
(* C20 *)

\* C20 (as claimed): every state the Router or the Dispatcher returns with
\* next_action END has a response that is not null, so run_orchestrator
\* never returns the fallback string.  Violated: a worker answering 200
\* with {"result": null} gives an END state whose response is None.
C20_EndHasResponse ==
    \A r \in Requests :
        /\ pc[r] # "idle" /\ state[r].next_action = "END" => state[r].response # None
        /\ Returned(r) => result[r] # Str(FallbackMessage)

----------------------------------------------------------------------------
(* C21 *)

\* the worker answered 200 with a JSON object that has no "result" field
NoResultField(r) ==
    /\ worker[r].kind = "http"
    /\ worker[r].status = 200
    /\ ParseJson(worker[r].body).ok
    /\ ParseJson(worker[r].body).dict
    /\ ~ParseJson(worker[r].body).has

\* C21: when the worker answers HTTP 200 with a JSON object that has no
\* result field, the Dispatcher reports no error: the state it returns has
\* next_action END and the empty string as response, and the caller
\* receives the empty string.
C21_NoResultFieldIsEmptyAnswer ==
    \A r \in Requests :
        NoResultField(r) =>
            /\ GraphEnded(r)
            /\ state[r].next_action = "END"
            /\ state[r].response = Str(<<>>)
            /\ Returned(r) => result[r] = Str(<<>>)
            /\ pc[r] = "done" => answer[r] = [status |-> 200, body |-> Str(<<>>)]

\* C21 witness: a 200 reply without the field was answered with the empty
\* string
C21_Witness ==
    \E r \in Requests :
        /\ pc[r] = "done"
        /\ worker[r] = [kind |-> "http", status |-> 200, body |-> BodyNoResult, err |-> <<>>]
        /\ Len(posts[r]) = 1
        /\ state[r].response = Str(<<>>)
        /\ answer[r] = [status |-> 200, body |-> Str(<<>>)]

----------------------------------------------------------------------------
(* C22 *)

\* C22: in a run started by run_orchestrator the "No query provided."
\* branches are never taken: the state always carries exactly one human
\* message, so every Router step calls the classifier, the empty query
\* included, and neither node gives that response.
C22_NoQueryUnreachable ==
    \A r \in Requests :
        pc[r] # "idle" =>
            /\ Len(HumanMessages(state[r])) = 1
            /\ Occurrences(trace[r], "generate_content") = Occurrences(trace[r], "route_query")
            /\ Contains(trace[r], "process_with_agent") =>
                   (Contains(trace[r], "post") \/ state[r].response = Str(NoValidAgentMessage))
            /\ state[r].response # Str(NoQueryMessage)
            /\ result[r] # Str(NoQueryMessage)

\* C22 witness: the Router called the classifier for the empty query, and
\* the Dispatcher posted it
C22_Witness ==
    \E r \in Requests :
        /\ pc[r] = "done"
        /\ query_input[r] = <<>>
        /\ trace[r] = <<"route_query", "generate_content", "process_with_agent", "post">>
        /\ state[r].response # Str(NoQueryMessage)

\* C22 with a query that is not empty
C22_WitnessQuery ==
    \E r \in Requests :
        /\ pc[r] = "edge"
        /\ query_input[r] # <<>>
        /\ trace[r] = <<"route_query", "generate_content">>

====
